---- MODULE Spec2Model ----
(***************************************************************************)
(* Model of agent.py (LFDT-TAC-Agent): project discovery, report           *)
(* collection and the incrementally persisted analysis pipeline.           *)
(*                                                                         *)
(* Text is modelled as a sequence of one-character strings, so that        *)
(* strip, split, lower, substring search and the regular expressions of    *)
(* the source are computed on characters as Python computes them.          *)
(***************************************************************************)
EXTENDS Integers, Sequences, FiniteSets, TLC

VARIABLES
    pc,                 \* position of the program
    schedule,           \* outcome of reading the schedule document
    repo_listing,       \* outcome of list_repo_files() in the discovery fallback
    pr,                 \* the pull request handed to the function under study
    engine,             \* llm_engine argument of extract_project_name_from_pr
    result,             \* return value of the function under study
    fallback_invoked,   \* whether llm_engine.infer_project_name was called
    candidate_projects, \* run(): list returned by list_possible_projects
    pull_requests,      \* run(): list returned by get_open_pull_requests
    pr_index,           \* run(): position of the for loop (1-based)
    project,            \* process_pull_request: resolved project or None
    reports,            \* process_pull_request: combined report list
    analysis_steps,     \* process_pull_request: analysis_steps list
    output_file,        \* content of the output file on disk (None = absent)
    llm_calls,          \* inference calls made for the current pull request
    llm_seen,           \* every (prompt, response) pair the service has answered
    file_before,        \* output_file when the current pull request was entered
    final_before,       \* file_before was written by a pipeline that completed
    completed,          \* (project, reports, content) of pipelines completed earlier
    processed           \* indices of pull_requests that process_pull_request entered

vars == <<pc, schedule, repo_listing, pr, engine, result, fallback_invoked,
          candidate_projects, pull_requests, pr_index, project, reports,
          analysis_steps, output_file, llm_calls, llm_seen, file_before,
          final_before, completed, processed>>

\* Python's None, as a value that can be compared with text and is no text.
None == <<"None">>

(***************************************************************************)
(* Characters and Python's str methods.                                    *)
(***************************************************************************)
UpperSeq == <<"A","B","C","D","E","F","G","H","I","J","K","L","M",
              "N","O","P","Q","R","S","T","U","V","W","X","Y","Z">>

LowerSeq == <<"a","b","c","d","e","f","g","h","i","j","k","l","m",
              "n","o","p","q","r","s","t","u","v","w","x","y","z">>

DigitSeq == <<"0","1","2","3","4","5","6","7","8","9">>

Range(f) == {f[i] : i \in DOMAIN f}

\* \w of the re module, on the ASCII characters the model uses.
IsWordChar(c) == c \in Range(UpperSeq) \cup Range(LowerSeq) \cup Range(DigitSeq) \cup {"_"}

\* \s of the re module, and the characters str.strip() removes.
IsSpaceChar(c) == c \in {" ", "\t", "\n", "\r"}

LowerChar(c) ==
    IF c \in Range(UpperSeq)
    THEN LowerSeq[CHOOSE i \in DOMAIN UpperSeq : UpperSeq[i] = c]
    ELSE c

\* str.lower()
Lower(s) == [i \in DOMAIN s |-> LowerChar(s[i])]

RECURSIVE LStripSet(_, _)
LStripSet(s, cs) ==
    IF s = <<>> \/ s[1] \notin cs THEN s ELSE LStripSet(Tail(s), cs)

RECURSIVE RStripSet(_, _)
RStripSet(s, cs) ==
    IF s = <<>> \/ s[Len(s)] \notin cs THEN s
    ELSE RStripSet(SubSeq(s, 1, Len(s) - 1), cs)

SpaceChars == {" ", "\t", "\n", "\r"}

\* str.strip()
Strip(s) == RStripSet(LStripSet(s, SpaceChars), SpaceChars)

\* str.strip("|")
StripPipes(s) == RStripSet(LStripSet(s, {"|"}), {"|"})

\* Position of the first occurrence of character c in s, 0 when absent.
FirstIndex(s, c) ==
    IF \E i \in DOMAIN s : s[i] = c
    THEN CHOOSE i \in DOMAIN s : s[i] = c /\ \A j \in 1..(i - 1) : s[j] # c
    ELSE 0

\* str.split(sep) for a one-character separator.
RECURSIVE Split(_, _)
Split(s, sep) ==
    LET i == FirstIndex(s, sep)
    IN  IF i = 0 THEN <<s>>
        ELSE <<SubSeq(s, 1, i - 1)>> \o Split(SubSeq(s, i + 1, Len(s)), sep)

\* str.splitlines() on text whose only line break is "\n".
RECURSIVE SplitLines(_)
SplitLines(s) ==
    IF s = <<>> THEN <<>>
    ELSE LET i == FirstIndex(s, "\n")
         IN  IF i = 0 THEN <<s>>
             ELSE <<SubSeq(s, 1, i - 1)>> \o SplitLines(SubSeq(s, i + 1, Len(s)))

\* `sub in s`
Contains(sub, s) ==
    \E i \in 1..(Len(s) - Len(sub) + 1) : SubSeq(s, i, i + Len(sub) - 1) = sub

\* sep.join(parts)
RECURSIVE Join(_, _)
Join(sep, parts) ==
    IF parts = <<>> THEN <<>>
    ELSE IF Len(parts) = 1 THEN parts[1]
    ELSE parts[1] \o sep \o Join(sep, Tail(parts))

\* Longest prefix of s made of characters satisfying [\w\-].
RECURSIVE WordDashPrefix(_)
WordDashPrefix(s) ==
    IF s = <<>> \/ ~(IsWordChar(s[1]) \/ s[1] = "-") THEN <<>>
    ELSE <<s[1]>> \o WordDashPrefix(Tail(s))

\* str(n) for a natural number n.
RECURSIVE Str(_)
Str(n) == IF n < 10 THEN <<DigitSeq[n + 1]>> ELSE Str(n \div 10) \o <<DigitSeq[(n % 10) + 1]>>

\* The permutations of a finite set: the orders list(a_set) can produce.
Perms(S) ==
    {f \in [1..Cardinality(S) -> S] : \A i, j \in 1..Cardinality(S) : f[i] = f[j] => i = j}

(***************************************************************************)
(* ReportExtractor.list_possible_projects                                  *)
(***************************************************************************)
Lit_project == <<"p","r","o","j","e","c","t">>

Lit_Project == <<"P","r","o","j","e","c","t">>

\* [col.strip().lower() for col in line.strip("|").split("|")]
HeaderCols(line) ==
    LET raw == Split(StripPipes(line), "|")
    IN  [i \in DOMAIN raw |-> Lower(Strip(raw[i]))]

\* [col.strip() for col in line.strip("|").split("|")]
RowCols(line) ==
    LET raw == Split(StripPipes(line), "|")
    IN  [i \in DOMAIN raw |-> Strip(raw[i])]

\* re.match(r"^\s*[-|]+\s*$", line)
IsSeparatorRow(line) ==
    LET core == Strip(line)
    IN  core # <<>> /\ \A i \in DOMAIN core : core[i] \in {"-", "|"}

\* re.match(r'^[\-\s]+$', project_name)
IsDashesOrSpaces(name) ==
    name # <<>> /\ \A i \in DOMAIN name : name[i] = "-" \/ IsSpaceChar(name[i])

\* header_cols.index("project")
IndexOfProject(header_cols) ==
    CHOOSE i \in DOMAIN header_cols :
        header_cols[i] = Lit_project /\ \A j \in 1..(i - 1) : header_cols[j] # Lit_project

\* The body of `for line in lines:` applied to the rest of the lines.
RECURSIVE ParseScheduleLines(_, _, _, _)
ParseScheduleLines(lines, header_found, header_cols, projects) ==
    IF lines = <<>> THEN projects
    ELSE
        LET line == lines[1]
            rest == Tail(lines)
        IN  IF ~header_found /\ Contains(<<"|">>, line)
            THEN LET hc == HeaderCols(line)
                 IN  ParseScheduleLines(rest, Lit_project \in Range(hc), hc, projects)
            ELSE IF header_found /\ ~IsSeparatorRow(line) /\ Contains(<<"|">>, line)
            THEN LET cols == RowCols(line)
                 IN  IF header_cols # <<>> /\ Len(cols) = Len(header_cols)
                     THEN LET project_name == Strip(cols[IndexOfProject(header_cols)])
                          IN  IF project_name # <<>> /\ ~IsDashesOrSpaces(project_name)
                              THEN ParseScheduleLines(rest, header_found, header_cols,
                                                      projects \cup {Lower(project_name)})
                              ELSE ParseScheduleLines(rest, header_found, header_cols, projects)
                     ELSE ParseScheduleLines(rest, header_found, header_cols, projects)
            ELSE ParseScheduleLines(rest, header_found, header_cols, projects)

\* `if "Project" in content and "|" in content:`
LooksLikeTable(content) ==
    Contains(Lit_Project, content) /\ Contains(<<"|">>, content)

\* The tokens of re.split(r'\W+', name) that are not empty.
RECURSIVE WordTokens(_)
WordTokens(name) ==
    IF name = <<>> THEN <<>>
    ELSE IF ~IsWordChar(name[1]) THEN WordTokens(Tail(name))
    ELSE LET n == CHOOSE k \in 1..Len(name) :
                      /\ \A j \in 1..k : IsWordChar(name[j])
                      /\ (k = Len(name) \/ ~IsWordChar(name[k + 1]))
         IN  <<SubSeq(name, 1, n)>> \o WordTokens(SubSeq(name, n + 1, Len(name)))

\* The except branch: tokens of the names of all repository files.
FileNameTokens(files) ==
    UNION { { Lower(tok) : tok \in { t \in Range(WordTokens(files[i].name)) : Len(t) > 2 } } :
            i \in { k \in DOMAIN files : files[k].type = "file" } }

\* The set of projects list_possible_projects returns, with the path taken;
\* raised is TRUE when list_repo_files() fails inside the except branch.
list_possible_projects(sched, listing) ==
    IF sched.kind = "ok" /\ LooksLikeTable(sched.content)
    THEN [raised |-> FALSE, path |-> "table",
          projects |-> ParseScheduleLines(SplitLines(sched.content), FALSE, <<>>, {})]
    ELSE IF listing.kind = "ok"
    THEN [raised |-> FALSE, path |-> "fallback", projects |-> FileNameTokens(listing.files)]
    ELSE [raised |-> TRUE, path |-> "fallback", projects |-> {}]

(***************************************************************************)
(* Inputs of the discovery specification: schedule documents built from a  *)
(* few lines (those of test_list_possible_projects and variations of       *)
(* them), and repository listings.                                         *)
(***************************************************************************)
L_Header == <<"|"," ","P","r","o","j","e","c","t"," ","|"," ","S","t","a","t","u","s"," ","|">>

L_HeaderLower == <<"|"," ","p","r","o","j","e","c","t"," ","|"," ","s","t","a","t","u","s"," ","|">>

L_Separator == <<"|","-","-","-","-","-","-","-","-","-","|","-","-","-","-","-","-","-","-","|">>

L_RowFireFly == <<"|"," ","H","y","p","e","r","l","e","d","g","e","r"," ","F","i","r","e","F","l","y"," ","|"," ","A","c","t","i","v","e"," ","|">>

L_RowProjectY == <<"|"," ","P","r","o","j","e","c","t","Y"," ","|"," ","A","c","t","i","v","e"," ","|">>

L_RowShort == <<"|"," ","B","e","s","u"," ","|">>

L_RowDashes == <<"|"," ","-","-","-"," ","|"," ","A","c","t","i","v","e"," ","|">>

L_Prose == <<"P","r","o","j","e","c","t"," ","s","c","h","e","d","u","l","e">>

L_HeaderOther == <<"|"," ","N","a","m","e"," ","|"," ","S","t","a","t","u","s"," ","|">>

N_Report == <<"2","0","2","5","-","Q","1","-","B","e","s","u",".","m","d">>

N_Readme == <<"R","E","A","D","M","E",".","m","d">>

ScheduleLines ==
    {L_Header, L_HeaderLower, L_Separator, L_RowFireFly, L_RowProjectY,
     L_RowShort, L_RowDashes, L_Prose, L_HeaderOther}

\* Longest schedule document, in lines.
MaxLines == 3

SeqsUpTo(S, n) == UNION {[1..k -> S] : k \in 0..n}

ScheduleDocs == {Join(<<"\n">>, ls) : ls \in SeqsUpTo(ScheduleLines, MaxLines)}

\* get_file_by_path / get_file_content either raise or give the content.
ScheduleOutcomes ==
    {[kind |-> "error", content |-> <<>>]} \cup {[kind |-> "ok", content |-> d] : d \in ScheduleDocs}

\* An item of list_repo_files() / get_pr_files(): has_url is FALSE when the
\* item carries neither raw_url nor download_url.
FileInfo(name, has_url, text) ==
    [type |-> "file", name |-> name, has_url |-> has_url, text |-> text]

DiscoveryListings ==
    {[kind |-> "error", files |-> <<>>],
     [kind |-> "ok", files |-> <<>>],
     [kind |-> "ok", files |-> <<FileInfo(N_Report, TRUE, <<>>), FileInfo(N_Readme, TRUE, <<>>)>>]}

\* Values of the variables a specification does not use.
PipelineIdle ==
    /\ candidate_projects = <<>>
    /\ pull_requests = <<>>
    /\ pr_index = 0
    /\ project = None
    /\ reports = <<>>
    /\ analysis_steps = <<>>
    /\ output_file = None
    /\ llm_calls = <<>>
    /\ llm_seen = {}
    /\ file_before = None
    /\ final_before = FALSE
    /\ completed = {}
    /\ processed = {}

pipeline_vars ==
    <<candidate_projects, pull_requests, pr_index, project, reports, analysis_steps,
      output_file, llm_calls, llm_seen, file_before, final_before, completed, processed>>

NoEngine == [kind |-> "none", answer |-> <<>>]

NoPr == [has_number |-> FALSE, title |-> <<>>, body |-> <<>>, description |-> <<>>, files |-> <<>>]

InitDiscover ==
    /\ pc = "discover"
    /\ schedule \in ScheduleOutcomes
    /\ repo_listing \in DiscoveryListings
    /\ pr = NoPr
    /\ engine = NoEngine
    /\ result = None
    /\ fallback_invoked = FALSE
    /\ PipelineIdle

\* One call of list_possible_projects; list(projects) has an arbitrary order.
DiscoverCall ==
    /\ pc = "discover"
    /\ LET out == list_possible_projects(schedule, repo_listing)
       IN  IF out.raised
           THEN pc' = "raised" /\ result' = result
           ELSE pc' = "returned" /\ result' \in Perms(out.projects)
    /\ UNCHANGED <<schedule, repo_listing, pr, engine, fallback_invoked>>
    /\ UNCHANGED pipeline_vars

NextDiscover == DiscoverCall

SpecDiscover == InitDiscover /\ [][NextDiscover]_vars

(***************************************************************************)
(* Claims about list_possible_projects, checked under SpecDiscover.        *)
(***************************************************************************)
\* Position of the first pipe-delimited line with a "project" column, 0 if none.
HeaderLine(lines) ==
    LET IsHeader(i) == Contains(<<"|">>, lines[i]) /\ Lit_project \in Range(HeaderCols(lines[i]))
    IN  IF \E i \in DOMAIN lines : IsHeader(i)
        THEN CHOOSE i \in DOMAIN lines : IsHeader(i) /\ \A j \in 1..(i - 1) : ~IsHeader(j)
        ELSE 0

\* The schedule document has a table: a header row with a "project" column.
HasProjectHeader(sched) ==
    sched.kind = "ok" /\ HeaderLine(SplitLines(sched.content)) # 0

\* What the schedule table lists: the trimmed, lowercased "project" cell of
\* every row after the header with as many columns as the header, unless the
\* row is a separator row or the cell is empty or made of dashes and blanks.
TableProjects(content) ==
    LET lines == SplitLines(content)
        h     == HeaderLine(lines)
        hc    == HeaderCols(lines[h])
        Cell(i) == RowCols(lines[i])[IndexOfProject(hc)]
    IN  { Lower(Cell(i)) :
              i \in { k \in (h + 1)..Len(lines) :
                        /\ Contains(<<"|">>, lines[k])
                        /\ ~IsSeparatorRow(lines[k])
                        /\ Len(RowCols(lines[k])) = Len(hc)
                        /\ Cell(k) # <<>>
                        /\ ~IsDashesOrSpaces(Cell(k)) } }

\* C7: whenever the schedule document cannot be read or has no header row
\* with a "project" column, and the repository can be listed, the call returns
\* the lowercased file-name tokens longer than 2 characters of all files.
C7_FallbackOnEveryScheduleFailure ==
    (pc # "discover" /\ ~HasProjectHeader(schedule) /\ repo_listing.kind = "ok")
        => /\ pc = "returned"
           /\ Range(result) = FileNameTokens(repo_listing.files)
           /\ \A tok \in Range(result) : Len(tok) > 2 /\ tok = Lower(tok)

\* C9: for a schedule document with a header row that has a "project" column,
\* the call returns exactly the projects the table lists.
C9_TableProjectsReturned ==
    (pc = "returned" /\ HasProjectHeader(schedule))
        => Range(result) = TableProjects(schedule.content)

\* The cases in which the code agrees with C7 and C9: the gate
\* `"Project" in content and "|" in content` decides the path.
GateDecidesPath ==
    /\ (pc = "returned" /\ HasProjectHeader(schedule) /\ LooksLikeTable(schedule.content))
           => Range(result) = TableProjects(schedule.content)
    /\ (pc # "discover" /\ repo_listing.kind = "ok"
           /\ (schedule.kind = "error" \/ ~LooksLikeTable(schedule.content)))
           => pc = "returned" /\ Range(result) = FileNameTokens(repo_listing.files)

(***************************************************************************)
(* ReportExtractor.extract_project_name_from_pr                            *)
(***************************************************************************)
Lit_create == <<"c","r","e","a","t","e">>

Lit_name == <<"n","a","m","e">>

\* Rest of s after its leading \s* characters.
SkipSpaces(s) == LStripSet(s, SpaceChars)

\* re.match(r"([\w\-]+)[\s:]+", title): group 1, or None without a match.
TitleCandidate(title) ==
    LET word == WordDashPrefix(title)
    IN  IF word # <<>> /\ Len(title) > Len(word)
           /\ (IsSpaceChar(title[Len(word) + 1]) \/ title[Len(word) + 1] = ":")
        THEN word ELSE None

\* Group 1 of r"project\s*name\s*[:\-]\s*([\w\-]+)" (IGNORECASE) matched at
\* the start of s, or None.
BodyMatchAt(s) ==
    IF Len(s) < 7 \/ Lower(SubSeq(s, 1, 7)) # Lit_project THEN None
    ELSE LET a == SkipSpaces(SubSeq(s, 8, Len(s)))
         IN  IF Len(a) < 4 \/ Lower(SubSeq(a, 1, 4)) # Lit_name THEN None
             ELSE LET b == SkipSpaces(SubSeq(a, 5, Len(a)))
                  IN  IF b = <<>> \/ b[1] \notin {":", "-"} THEN None
                      ELSE LET word == WordDashPrefix(SkipSpaces(Tail(b)))
                           IN  IF word = <<>> THEN None ELSE word

\* re.search(...): the match at the leftmost position that has one.
BodyCandidate(body) ==
    LET Hit(i) == BodyMatchAt(SubSeq(body, i, Len(body))) # None
    IN  IF \E i \in DOMAIN body : Hit(i)
        THEN BodyMatchAt(SubSeq(body,
                 CHOOSE i \in DOMAIN body : Hit(i) /\ \A j \in 1..(i - 1) : ~Hit(j),
                 Len(body)))
        ELSE None

\* `if candidate and candidate.lower() != "create"`
Usable(candidate) ==
    candidate # None /\ candidate # <<>> /\ Lower(candidate) # Lit_create

\* The call's outcome: the value returned, whether infer_project_name was
\* called, and whether the call raised (AnalysisEngine has no such method).
extract_project_name_from_pr(p, llm_engine) ==
    IF Usable(TitleCandidate(p.title))
    THEN [value |-> TitleCandidate(p.title), fallback |-> FALSE, raised |-> FALSE]
    ELSE IF Usable(BodyCandidate(p.body))
    THEN [value |-> BodyCandidate(p.body), fallback |-> FALSE, raised |-> FALSE]
    ELSE IF llm_engine.kind = "dummy"
    THEN [value |-> llm_engine.answer, fallback |-> TRUE, raised |-> FALSE]
    ELSE IF llm_engine.kind = "analysis_engine"
    THEN [value |-> None, fallback |-> FALSE, raised |-> TRUE]
    ELSE [value |-> None, fallback |-> FALSE, raised |-> FALSE]

(***************************************************************************)
(* Inputs of the extraction specification: the pull requests of            *)
(* test_agent.py and variations, with and without an inference fallback.   *)
(***************************************************************************)
T_CreateFireFly == <<"C","r","e","a","t","e"," ","2","0","2","5","-","a","n","n","u","a","l","-","H","y","p","e","r","l","e","d","g","e","r","-","F","i","r","e","F","l","y",".","m","d">>

T_Besu == <<"B","e","s","u",":"," ","Q","1"," ","r","e","p","o","r","t">>

T_createLower == <<"c","r","e","a","t","e",":"," ","r","e","p","o","r","t">>

T_OneWord == <<"P","r","o","j","e","c","t","Y">>

T_Dashed == <<"f","a","b","r","i","c","-","s","d","k"," ","u","p","d","a","t","e">>

B_FireFly == <<"P","r","o","j","e","c","t"," ","n","a","m","e",":"," ","H","y","p","e","r","l","e","d","g","e","r"," ","F","i","r","e","F","l","y",".">>

B_FireFlyLong == <<"T","h","i","s"," ","P","R"," ","c","o","n","t","a","i","n","s"," ","t","h","e"," ","a","n","n","u","a","l"," ","r","e","p","o","r","t","."," ","P","r","o","j","e","c","t"," ","n","a","m","e",":"," ","H","y","p","e","r","l","e","d","g","e","r"," ","F","i","r","e","F","l","y",".">>

B_ProjectY == <<"P","r","o","j","e","c","t"," ","n","a","m","e",":"," ","P","r","o","j","e","c","t","Y","."," ","Q","u","a","r","t","e","r","l","y"," ","m","e","t","r","i","c","s",".",".",".">>

B_CreateName == <<"p","r","o","j","e","c","t"," ","n","a","m","e"," ","-"," ","C","r","e","a","t","e">>

B_Plain == <<"A","n","n","u","a","l"," ","r","e","p","o","r","t",".">>

A_FireFly == <<"H","y","p","e","r","l","e","d","g","e","r"," ","F","i","r","e","F","l","y">>

A_Hyperledger == <<"H","y","p","e","r","l","e","d","g","e","r">>

ExtractTitles == {<<>>, T_CreateFireFly, T_Besu, T_createLower, T_OneWord, T_Dashed}

ExtractBodies == {<<>>, B_FireFly, B_FireFlyLong, B_ProjectY, B_CreateName, B_Plain}

\* No engine, the DummyEngine of the test, one answering with the empty
\* string, and an AnalysisEngine.
ExtractEngines ==
    {NoEngine,
     [kind |-> "dummy", answer |-> A_FireFly],
     [kind |-> "dummy", answer |-> <<>>],
     [kind |-> "analysis_engine", answer |-> <<>>]}

InitExtract ==
    /\ pc = "extract"
    /\ \E title \in ExtractTitles, body \in ExtractBodies :
           pr = [has_number |-> FALSE, title |-> title, body |-> body,
                 description |-> <<>>, files |-> <<>>]
    /\ engine \in ExtractEngines
    /\ schedule = [kind |-> "error", content |-> <<>>]
    /\ repo_listing = [kind |-> "error", files |-> <<>>]
    /\ result = None
    /\ fallback_invoked = FALSE
    /\ PipelineIdle

\* One call of extract_project_name_from_pr(pr, engine).
ExtractCall ==
    /\ pc = "extract"
    /\ LET out == extract_project_name_from_pr(pr, engine)
       IN  /\ pc' = IF out.raised THEN "raised" ELSE "returned"
           /\ result' = out.value
           /\ fallback_invoked' = out.fallback
    /\ UNCHANGED <<schedule, repo_listing, pr, engine>>
    /\ UNCHANGED pipeline_vars

NextExtract == ExtractCall

SpecExtract == InitExtract /\ [][NextExtract]_vars

\* C6: for the pull request of the test (title "Create 2025-annual-Hyperledger-
\* FireFly.md", body holding "Project name: Hyperledger FireFly.") and a
\* fallback that would answer "Hyperledger FireFly", the call returns
\* "Hyperledger FireFly" from the body rule and does not invoke the fallback.
C6_BodyRuleGivesFireFly ==
    (pc # "extract" /\ pr.title = T_CreateFireFly /\ pr.body \in {B_FireFly, B_FireFlyLong}
        /\ engine = [kind |-> "dummy", answer |-> A_FireFly])
        => pc = "returned" /\ result = A_FireFly /\ ~fallback_invoked

\* What the code does on that input: the body rule captures one [\w\-]+ token.
BodyRuleGivesFirstToken ==
    (pc # "extract" /\ pr.title = T_CreateFireFly /\ pr.body \in {B_FireFly, B_FireFlyLong})
        => pc = "returned" /\ result = A_Hyperledger /\ ~fallback_invoked

(***************************************************************************)
(* ReportExtractor.extract_reports_from_pr                                 *)
(***************************************************************************)
Lit_None == <<"N","o","n","e">>

\* "{...}" in an f-string: str(None) is the text "None".
Fmt(x) == IF x = None THEN Lit_None ELSE x

\* GitHubClient.get_file_content when the transport succeeds.
get_file_content(file_info) == IF file_info.has_url THEN file_info.text ELSE <<>>

\* The for loop over pr_files: the non-empty contents, in file order.
RECURSIVE NonEmptyContents(_)
NonEmptyContents(files) ==
    IF files = <<>> THEN <<>>
    ELSE (IF get_file_content(files[1]) # <<>> THEN <<get_file_content(files[1])>> ELSE <<>>)
         \o NonEmptyContents(Tail(files))

\* f"{pr.get('body', '')}\n{pr.get('description', '')}".strip()
PrText(p) == Strip(Fmt(p.body) \o <<"\n">> \o Fmt(p.description))

\* A plausible slip: the synthetic report built from the title as well.
extract_reports_from_pr_with_title(p) ==
    IF p.has_number /\ NonEmptyContents(p.files) # <<>>
    THEN NonEmptyContents(p.files)
    ELSE IF Strip(p.title \o <<"\n">> \o Fmt(p.body) \o <<"\n">> \o Fmt(p.description)) # <<>>
    THEN <<Strip(p.title \o <<"\n">> \o Fmt(p.body) \o <<"\n">> \o Fmt(p.description))>>
    ELSE <<>>

\* The reports returned when no transport call fails.
extract_reports_from_pr(p) ==
    IF p.has_number /\ NonEmptyContents(p.files) # <<>>
    THEN NonEmptyContents(p.files)
    ELSE IF PrText(p) # <<>> THEN <<PrText(p)>> ELSE <<>>

\* The transport calls made: get_pr_files and one get_file_content per file
\* with a URL; each raises on a non-success response.
PrTransportCalls(p) == IF p.has_number THEN 1 + Len(SelectSeq(p.files, LAMBDA f : f.has_url)) ELSE 0

X_Body == <<"Q","u","a","r","t","e","r","l","y"," ","r","e","p","o","r","t",".">>

X_Padded == <<" ","n","o","t","e","s","\n">>

X_Blank == <<" ","\n">>

X_Desc == <<"M","o","r","e",".">>

X_Title == <<"U","p","d","a","t","e">>

X_FileA == <<"A">>

X_FileB == <<"B"," ","b">>

\* Most changed files of a pull request.
MaxFiles == 2

CollectFiles ==
    {FileInfo(<<>>, TRUE, X_FileA), FileInfo(<<>>, TRUE, X_FileB),
     FileInfo(<<>>, TRUE, <<>>), FileInfo(<<>>, FALSE, X_FileA)}

\* body is None when the source reports a null body; a pull request without
\* a description key reads as ''.
CollectPrs ==
    [has_number : BOOLEAN, title : {<<>>, X_Title},
     body : {<<>>, None, X_Body, X_Padded, X_Blank},
     description : {<<>>, X_Desc},
     files : SeqsUpTo(CollectFiles, MaxFiles)]

InitCollect ==
    /\ pc = "collect"
    /\ pr \in CollectPrs
    /\ engine = NoEngine
    /\ schedule = [kind |-> "error", content |-> <<>>]
    /\ repo_listing = [kind |-> "error", files |-> <<>>]
    /\ result = None
    /\ fallback_invoked = FALSE
    /\ PipelineIdle

\* extract_reports_from_pr(pr, github_client) returns.
CollectReturn ==
    /\ pc = "collect"
    /\ pc' = "returned"
    /\ result' = extract_reports_from_pr(pr)
    /\ UNCHANGED <<schedule, repo_listing, pr, engine, fallback_invoked>>
    /\ UNCHANGED pipeline_vars

\* One of its transport calls fails and the exception propagates.
CollectRaise ==
    /\ pc = "collect"
    /\ PrTransportCalls(pr) > 0
    /\ pc' = "raised"
    /\ UNCHANGED <<schedule, repo_listing, pr, engine, result, fallback_invoked>>
    /\ UNCHANGED pipeline_vars

NextCollect == CollectReturn \/ CollectRaise

SpecCollect == InitCollect /\ [][NextCollect]_vars

\* The contents that the changed files of pr yield, empty ones dropped.
FetchedContents(p) ==
    IF p.has_number
    THEN LET got == [i \in DOMAIN p.files |-> IF p.files[i].has_url THEN p.files[i].text ELSE <<>>]
         IN  SelectSeq(got, LAMBDA c : Len(c) > 0)
    ELSE <<>>

\* C8 as stated: when no changed file yields content and the title/body/
\* description text is not empty, the result is exactly one synthetic report.
C8_SyntheticReportFromTitleBodyDescription ==
    (pc = "returned" /\ FetchedContents(pr) = <<>>)
        => IF Strip(pr.title \o Fmt(pr.body) \o Fmt(pr.description)) # <<>>
           THEN Len(result) = 1
           ELSE result = <<>>

\* C8 amended: the result is the non-empty contents of the changed files in
\* file order if there is one; otherwise the one report made of body, a line
\* break and description, stripped, if that text is not empty (the title is
\* not part of it); otherwise the empty list.
C8_ThreeLevelFallback ==
    pc = "returned" =>
        LET text == Strip(Fmt(pr.body) \o <<"\n">> \o Fmt(pr.description))
        IN  /\ FetchedContents(pr) # <<>> => result = FetchedContents(pr)
            /\ (FetchedContents(pr) = <<>> /\ text # <<>>) => result = <<text>>
            /\ (FetchedContents(pr) = <<>> /\ text = <<>>) => result = <<>>

\* C8 witness: the changed files of a titled pull request all came back
\* empty and the call returned the one report made of body and description.
C8_Witness ==
    /\ pc = "returned"
    /\ pr.has_number /\ Len(pr.files) >= 1 /\ FetchedContents(pr) = <<>>
    /\ pr.title # <<>> /\ pr.body = X_Padded /\ pr.description = X_Desc
    /\ Len(result) = 1 /\ ~Contains(pr.title, result[1])

(***************************************************************************)
(* ReportExtractor.determine_project_for_pr, extract_reports_from_repo,    *)
(* ResultManager.write_output and the texts AIAgent builds.                *)
(***************************************************************************)
Lit_Step == <<"S","t","e","p"," ">>

Lit_Analysis == <<" ","A","n","a","l","y","s","i","s",":","\n">>

Lit_FinalSummary == <<"F","i","n","a","l"," ","S","u","m","m","a","r","y",":","\n">>

Lit_Header == <<":","\n","\n">>

Lit_ParaBreak == <<"\n","\n">>

\* f"{pr.get('title', '')} {pr.get('body', '')} {pr.get('description', '')}".lower()
PrCorrelationText(p) ==
    Lower(Fmt(p.title) \o <<" ">> \o Fmt(p.body) \o <<" ">> \o Fmt(p.description))

\* The first candidate, in list order, found in the text of the pull request.
determine_project_for_pr(p, candidates) ==
    LET Hit(i) == Contains(candidates[i], PrCorrelationText(p))
    IN  IF \E i \in DOMAIN candidates : Hit(i)
        THEN candidates[CHOOSE i \in DOMAIN candidates : Hit(i) /\ \A j \in 1..(i - 1) : ~Hit(j)]
        ELSE None

\* re.compile(re.escape(project_name), re.IGNORECASE).search(name) on a file.
filter_reports(files, project_name) ==
    IF project_name = None \/ project_name = <<>> THEN <<>>
    ELSE SelectSeq(files, LAMBDA f : f.type = "file" /\ Contains(Lower(project_name), Lower(f.name)))

\* Contents of the matching files that mention the project.
RECURSIVE MentioningContents(_, _)
MentioningContents(files, project_name) ==
    IF files = <<>> THEN <<>>
    ELSE (IF Contains(Lower(project_name), Lower(get_file_content(files[1])))
          THEN <<get_file_content(files[1])>> ELSE <<>>)
         \o MentioningContents(Tail(files), project_name)

extract_reports_from_repo(files, project_name) ==
    MentioningContents(filter_reports(files, project_name), project_name)

\* A slip: appending to the output file instead of overwriting it.
write_output_appending(project_name, content) ==
    (IF output_file = None THEN <<>> ELSE output_file)
        \o project_name \o Lit_Header \o content \o <<"\n">>

\* The content of the output file after write_output(project, content).
write_output(project_name, content) ==
    project_name \o Lit_Header \o content \o <<"\n">>

\* f"Step {idx} Analysis:\n{step}"
StepText(idx, step) == Lit_Step \o Str(idx) \o Lit_Analysis \o step

\* A slip: persisting only the step just produced.
StepsContentLastOnly(steps) == steps[Len(steps)]

\* "\n\n".join(analysis_steps)
StepsContent(steps) == Join(Lit_ParaBreak, steps)

\* A slip: the final summary added after the step log instead of replacing it.
FinalContentAfterSteps(final_summary) ==
    StepsContent(analysis_steps) \o Lit_ParaBreak \o Lit_FinalSummary \o final_summary

\* f"Final Summary:\n{final_summary}"
FinalContent(final_summary) == Lit_FinalSummary \o final_summary

\* A slip: `if reports:` dropped, so that an empty collection is analysed.
ReportsFoundAlways(rs) == TRUE

\* `if reports:`
ReportsFound(rs) == rs # <<>>

(***************************************************************************)
(* The world of the run: a schedule document, the repository files, the    *)
(* open pull requests and the answers of the inference service.            *)
(***************************************************************************)
W_Schedule == <<"|"," ","P","r","o","j","e","c","t"," ","|","\n","|"," ","B","e","s","u"," ","|","\n","|"," ","F","a","b","r","i","c"," ","|">>

W_BesuName == <<"B","e","s","u","-","Q","1",".","m","d">>

W_BesuText == <<"B","e","s","u"," ","2","0","2","5">>

W_FabricName == <<"F","a","b","r","i","c",".","m","d">>

W_FabricText == <<"T","B","D">>

W_ChangedName == <<"r",".","m","d">>

W_ChangedText == <<"B","e","s","u"," ","o","k">>

W_Title1 == <<"B","e","s","u"," ","Q","1">>

W_Body1 == <<"B","e","s","u"," ","a","n","d"," ","F","a","b","r","i","c">>

W_Title2 == <<"F","a","b","r","i","c">>

W_Title3 == <<"T","y","p","o">>

W_Body3 == <<"f","i","x">>

W_Title4 == <<"B","e","s","u"," ","Q","2">>

W_OldFile == <<"b","e","s","u",":","\n","\n","F","i","n","a","l"," ","S","u","m","m","a","r","y",":","\n","o","l","d","\n">>

R_Ok == <<"o","k">>

R_Padded == <<" ","h","m"," ","\n">>

\* The schedule can be read, or reading it fails.
RunSchedules == {[kind |-> "ok", content |-> W_Schedule], [kind |-> "error", content |-> <<>>]}

\* list_repo_files(): a report that mentions Besu, and a Fabric file that
\* does not mention Fabric.
RepoFiles ==
    <<FileInfo(W_BesuName, TRUE, W_BesuText), FileInfo(W_FabricName, TRUE, W_FabricText)>>

ChangedFiles == <<FileInfo(W_ChangedName, TRUE, W_ChangedText)>>

\* Two pull requests with the same evidence (both name Besu and Fabric), one
\* that names Fabric and has no evidence, one that names no project.
OpenPullRequests ==
    {[has_number |-> TRUE, title |-> W_Title1, body |-> W_Body1, description |-> <<>>, files |-> ChangedFiles],
     [has_number |-> TRUE, title |-> W_Title4, body |-> W_Body1, description |-> <<>>, files |-> ChangedFiles],
     [has_number |-> TRUE, title |-> W_Title2, body |-> <<>>, description |-> <<>>, files |-> <<>>],
     [has_number |-> TRUE, title |-> W_Title3, body |-> W_Body3, description |-> <<>>, files |-> <<>>]}

\* Most open pull requests in one run.
MaxPRs == 3

\* get_open_pull_requests(): a list of distinct pull requests.
PullRequestLists ==
    {l \in SeqsUpTo(OpenPullRequests, MaxPRs) : \A i, j \in DOMAIN l : l[i] = l[j] => i = j}

\* response.json().get("response", "") of the inference service.
LlmResponses == {R_Ok, R_Padded}

\* The output file is absent, or holds the final summary of an earlier run.
InitialFiles == {None, W_OldFile}

(***************************************************************************)
(* AIAgent.run and AIAgent.process_pull_request                            *)
(***************************************************************************)
Init ==
    /\ pc = "run"
    /\ schedule = [kind |-> "error", content |-> <<>>]
    /\ repo_listing = [kind |-> "error", files |-> <<>>]
    /\ pr = NoPr
    /\ engine = NoEngine
    /\ result = None
    /\ fallback_invoked = FALSE
    /\ candidate_projects = <<>>
    /\ pull_requests = <<>>
    /\ pr_index = 0
    /\ project = None
    /\ reports = <<>>
    /\ analysis_steps = <<>>
    /\ output_file \in InitialFiles
    /\ llm_calls = <<>>
    /\ llm_seen = {}
    /\ file_before = output_file
    /\ final_before = (output_file # None)
    /\ completed = {}
    /\ processed = {}

unit_vars == <<pr, engine, result, fallback_invoked>>

\* candidate_projects = self.report_extractor.list_possible_projects(...)
RunListProjects ==
    /\ pc = "run"
    /\ \E sched \in RunSchedules, listing \in {[kind |-> "ok", files |-> RepoFiles],
                                               [kind |-> "error", files |-> <<>>]} :
           LET out == list_possible_projects(sched, listing)
           IN  /\ schedule' = sched
               /\ repo_listing' = (IF out.path = "fallback" THEN listing ELSE repo_listing)
               /\ IF out.raised
                  THEN pc' = "raised" /\ UNCHANGED candidate_projects
                  ELSE pc' = "listed" /\ candidate_projects' \in Perms(out.projects)
    /\ UNCHANGED <<pull_requests, pr_index, project, reports, analysis_steps, output_file,
                   llm_calls, llm_seen, file_before, final_before, completed, processed>>
    /\ UNCHANGED unit_vars

\* Entering process_pull_request(pull_requests[k], candidate_projects).
EnterPullRequest(prs, k) ==
    /\ pr_index' = k
    /\ pr' = prs[k]
    /\ pc' = "pr_start"
    /\ processed' = processed \cup {k}
    /\ project' = None
    /\ reports' = <<>>
    /\ analysis_steps' = <<>>
    /\ llm_calls' = <<>>
    /\ file_before' = output_file

\* pull_requests = self.github_client.get_open_pull_requests()
RunGetPullRequests ==
    /\ pc = "listed"
    /\ \E prs \in PullRequestLists :
           /\ pull_requests' = prs
           /\ IF prs = <<>>
              THEN /\ pc' = "returned"
                   /\ UNCHANGED <<pr_index, pr, processed, project, reports, analysis_steps,
                                  llm_calls, file_before>>
              ELSE EnterPullRequest(prs, 1)
    /\ UNCHANGED <<schedule, repo_listing, engine, result, fallback_invoked, candidate_projects,
                   output_file, llm_seen, final_before, completed>>

\* get_open_pull_requests() raises and the exception leaves run().
RunGetPullRequestsFails ==
    /\ pc = "listed"
    /\ pc' = "raised"
    /\ UNCHANGED <<schedule, repo_listing, candidate_projects, pull_requests, pr_index, project,
                   reports, analysis_steps, output_file, llm_calls, llm_seen, file_before,
                   final_before, completed, processed>>
    /\ UNCHANGED unit_vars

\* project = determine_project_for_pr(...); `if not project: return`
DetermineProject ==
    /\ pc = "pr_start"
    /\ project' = determine_project_for_pr(pr, candidate_projects)
    /\ pc' = IF project' = None \/ project' = <<>> THEN "pr_skipped" ELSE "collect"
    /\ UNCHANGED <<schedule, repo_listing, candidate_projects, pull_requests, pr_index,
                   reports, analysis_steps, output_file, llm_calls, llm_seen, file_before,
                   final_before, completed, processed>>
    /\ UNCHANGED unit_vars

\* reports.extend(extract_reports_from_pr); reports.extend(extract_reports_from_repo);
\* `if reports:` starts the for loop, which ends at once on an empty list.
CollectReports ==
    /\ pc = "collect"
    /\ reports' = extract_reports_from_pr(pr) \o extract_reports_from_repo(RepoFiles, project)
    /\ pc' = IF ~ReportsFound(reports') THEN "pr_skipped"
             ELSE IF reports' = <<>> THEN "aggregate" ELSE "analyze"
    /\ UNCHANGED <<schedule, repo_listing, candidate_projects, pull_requests, pr_index, project,
                   analysis_steps, output_file, llm_calls, llm_seen, file_before,
                   final_before, completed, processed>>
    /\ UNCHANGED unit_vars

\* A transport call of the collection (list_repo_files is always made) fails.
CollectReportsFails ==
    /\ pc = "collect"
    /\ pc' = "raised"
    /\ UNCHANGED <<schedule, repo_listing, candidate_projects, pull_requests, pr_index, project,
                   reports, analysis_steps, output_file, llm_calls, llm_seen, file_before,
                   final_before, completed, processed>>
    /\ UNCHANGED unit_vars

\* The inference call made for a prompt: analyze_single_report's prompt is
\* determined by (report, index), analyze_reports' by the joined steps.
LlmCall(kind, index, text, ok, response) ==
    [kind |-> kind, index |-> index, text |-> text, ok |-> ok, response |-> response]

\* The idx of `for idx, report in enumerate(reports, 1)` at the next iteration.
idx == Len(analysis_steps) + 1

\* One iteration of the for loop: analyze_single_report returns, the step is
\* appended and the whole step log is written to the output file.
AnalyzeSingleReport ==
    /\ pc = "analyze"
    /\ \E raw \in LlmResponses :
           LET step == Strip(raw)
           IN  /\ analysis_steps' = Append(analysis_steps, StepText(idx, step))
               /\ output_file' = write_output(project, StepsContent(analysis_steps'))
               /\ llm_calls' = Append(llm_calls, LlmCall("single", idx, reports[idx], TRUE, raw))
               /\ llm_seen' = llm_seen \cup
                      {[kind |-> "single", index |-> idx, text |-> reports[idx], response |-> raw]}
    /\ pc' = IF idx = Len(reports) THEN "aggregate" ELSE "analyze"
    /\ UNCHANGED <<schedule, repo_listing, candidate_projects, pull_requests, pr_index, project,
                   reports, file_before, final_before, completed, processed>>
    /\ UNCHANGED unit_vars

\* A slip: the output file opened for writing before the inference call, so
\* that a failing call leaves it empty.
AnalyzeSingleReportFailsTruncating ==
    /\ pc = "analyze"
    /\ llm_calls' = Append(llm_calls, LlmCall("single", idx, reports[idx], FALSE, <<>>))
    /\ output_file' = <<>>
    /\ pc' = "raised"
    /\ UNCHANGED <<schedule, repo_listing, candidate_projects, pull_requests, pr_index, project,
                   reports, analysis_steps, llm_seen, file_before, final_before,
                   completed, processed>>
    /\ UNCHANGED unit_vars

\* analyze_single_report raises (raise_for_status); the exception leaves
\* process_pull_request and run().
AnalyzeSingleReportFails ==
    /\ pc = "analyze"
    /\ llm_calls' = Append(llm_calls, LlmCall("single", idx, reports[idx], FALSE, <<>>))
    /\ pc' = "raised"
    /\ UNCHANGED <<schedule, repo_listing, candidate_projects, pull_requests, pr_index, project,
                   reports, analysis_steps, output_file, llm_seen, file_before, final_before,
                   completed, processed>>
    /\ UNCHANGED unit_vars

\* final_summary = analyze_reports(analysis_steps); write_output(project, final).
AnalyzeReports ==
    /\ pc = "aggregate"
    /\ \E raw \in LlmResponses :
           LET aggregated == Join(Lit_ParaBreak, analysis_steps)
           IN  /\ output_file' = write_output(project, FinalContent(Strip(raw)))
               /\ llm_calls' = Append(llm_calls, LlmCall("final", 0, aggregated, TRUE, raw))
               /\ llm_seen' = llm_seen \cup
                      {[kind |-> "final", index |-> 0, text |-> aggregated, response |-> raw]}
    /\ pc' = "pr_done"
    /\ UNCHANGED <<schedule, repo_listing, candidate_projects, pull_requests, pr_index, project,
                   reports, analysis_steps, file_before, final_before, completed, processed>>
    /\ UNCHANGED unit_vars

\* analyze_reports raises.
AnalyzeReportsFails ==
    /\ pc = "aggregate"
    /\ llm_calls' = Append(llm_calls,
                           LlmCall("final", 0, Join(Lit_ParaBreak, analysis_steps), FALSE, <<>>))
    /\ pc' = "raised"
    /\ UNCHANGED <<schedule, repo_listing, candidate_projects, pull_requests, pr_index, project,
                   reports, analysis_steps, output_file, llm_seen, file_before, final_before,
                   completed, processed>>
    /\ UNCHANGED unit_vars

\* process_pull_request returned: the for loop of run() takes the next pull
\* request, or run() returns after the last one.
NextPullRequest ==
    /\ pc \in {"pr_done", "pr_skipped"}
    /\ completed' = IF pc = "pr_done"
                    THEN completed \cup
                             {[project |-> project, reports |-> reports, content |-> output_file]}
                    ELSE completed
    /\ IF pr_index < Len(pull_requests)
       THEN /\ EnterPullRequest(pull_requests, pr_index + 1)
            /\ final_before' = (pc = "pr_done" \/ final_before)
       ELSE /\ pc' = "returned"
            /\ UNCHANGED <<pr_index, pr, processed, project, reports, analysis_steps,
                           llm_calls, file_before, final_before>>
    /\ UNCHANGED <<schedule, repo_listing, engine, result, fallback_invoked, candidate_projects,
                   pull_requests, output_file, llm_seen>>

Next ==
    \/ RunListProjects
    \/ RunGetPullRequests
    \/ RunGetPullRequestsFails
    \/ DetermineProject
    \/ CollectReports
    \/ CollectReportsFails
    \/ AnalyzeSingleReport
    \/ AnalyzeSingleReportFails
    \/ AnalyzeReports
    \/ AnalyzeReportsFails
    \/ NextPullRequest

Spec == Init /\ [][Next]_vars

(***************************************************************************)
(* Claims about the pipeline, checked under Spec.                          *)
(***************************************************************************)
\* The per-report inference calls of the current pull request that returned.
ReturnedSingles == SelectSeq(llm_calls, LAMBDA c : c.kind = "single" /\ c.ok)

\* The text of step i: its heading and the trimmed answer of call i.
ExpectedStep(i) == Lit_Step \o Str(i) \o Lit_Analysis \o Strip(ReturnedSingles[i].response)

\* Steps 1..n in order, separated by blank lines.
RECURSIVE ExpectedLog(_)
ExpectedLog(n) ==
    IF n = 1 THEN ExpectedStep(1) ELSE ExpectedLog(n - 1) \o Lit_ParaBreak \o ExpectedStep(n)

\* The artifact holding exactly steps 1..n of the current project.
HoldsStepLog(n) == output_file = project \o Lit_Header \o ExpectedLog(n) \o <<"\n">>

\* The inference call of the current pull request that failed, if any.
FailedCall == llm_calls[Len(llm_calls)]

InferenceFailed == pc = "raised" /\ llm_calls # <<>> /\ ~FailedCall.ok

\* C1: after the i-th per-report call returns the artifact holds exactly the
\* steps 1..i in order; when the call for report k > 1 (or the aggregate call)
\* fails, the artifact holds exactly steps 1..k-1 (or 1..N).
C1_StepLogPersisted ==
    /\ (pc \in {"analyze", "aggregate"} /\ Len(ReturnedSingles) >= 1)
           => HoldsStepLog(Len(ReturnedSingles))
    /\ (InferenceFailed /\ FailedCall.kind = "single" /\ FailedCall.index > 1)
           => Len(ReturnedSingles) = FailedCall.index - 1 /\ HoldsStepLog(FailedCall.index - 1)
    /\ (InferenceFailed /\ FailedCall.kind = "final")
           => Len(ReturnedSingles) = Len(reports) /\ HoldsStepLog(Len(reports))

\* C1 witness: the call for report 2 failed and step 1 is what the file holds.
C1_Witness ==
    /\ InferenceFailed /\ FailedCall.kind = "single" /\ FailedCall.index = 2
    /\ HoldsStepLog(1)
    /\ output_file # file_before

\* C2: a transport failure while processing one pull request does not end
\* the run: when run() is over, process_pull_request was entered for every
\* pull request of the list.
C2_EveryPullRequestProcessed ==
    (pc \in {"returned", "raised"} /\ pull_requests # <<>>)
        => processed = 1..Len(pull_requests)

\* The artifact holding the final summary of the current project.
HoldsFinalSummary ==
    /\ llm_calls # <<>>
    /\ llm_calls[Len(llm_calls)].kind = "final" /\ llm_calls[Len(llm_calls)].ok
    /\ output_file = project \o Lit_Header \o Lit_FinalSummary
                         \o Strip(llm_calls[Len(llm_calls)].response) \o <<"\n">>

\* C3 as stated: a pipeline run that ends in a transport failure never
\* replaces the final summary a successful run left in the artifact.
C3_FailedRunKeepsPreviousOutput ==
    (pc = "raised" /\ pr_index >= 1 /\ final_before) => output_file = file_before

\* C3 amended: the final summary of a successful run stays in the artifact
\* until an inference call of a later pipeline run returns; from then on the
\* artifact holds that run's step log, and its final summary once it is done.
\* A run that fails leaves the previous output only if no call of it returned.
C3_ReplacedOnceACallReturns ==
    (pr_index >= 1 /\ final_before) =>
        IF \A i \in DOMAIN llm_calls : ~llm_calls[i].ok THEN output_file = file_before
        ELSE IF pc \in {"pr_done", "returned"} THEN HoldsFinalSummary
        ELSE HoldsStepLog(Len(ReturnedSingles))

\* C3 witness: a run that failed after its first step replaced the final
\* summary of the run before it.
C3_Witness ==
    /\ InferenceFailed /\ pr_index >= 1 /\ final_before
    /\ Len(ReturnedSingles) >= 1
    /\ output_file # file_before

\* C4: the calls of one pipeline are the per-report calls 1..N in report
\* order, then one aggregate call whose input is the N steps in order; when
\* the pipeline is done the artifact holds the final summary and no step.
C4_PipelineOrder ==
    (pr_index >= 1 /\ reports # <<>>) =>
        /\ Len(llm_calls) <= Len(reports) + 1
        /\ \A i \in DOMAIN llm_calls :
               /\ (i < Len(llm_calls) => llm_calls[i].ok)
               /\ i <= Len(reports)
                      => /\ llm_calls[i].kind = "single"
                         /\ llm_calls[i].index = i
                         /\ llm_calls[i].text = reports[i]
               /\ i = Len(reports) + 1
                      => /\ llm_calls[i].kind = "final"
                         /\ llm_calls[i].text = ExpectedLog(Len(reports))
        /\ pc = "pr_done"
               => /\ Len(llm_calls) = Len(reports) + 1
                  /\ HoldsFinalSummary
                  /\ \A i \in DOMAIN analysis_steps : ~Contains(analysis_steps[i], output_file)

\* C4 witness: a pipeline over two reports is done.
C4_Witness ==
    /\ pc = "pr_done" /\ Len(reports) = 2 /\ Len(llm_calls) = 3
    /\ HoldsFinalSummary

\* C5: a pull request for which no project is resolved, or whose combined
\* report collection is empty, causes no inference call and no write.
C5_SkippedLeavesNoTrace ==
    (pr_index >= 1 /\ pc \notin {"pr_start", "collect"} /\ (project = None \/ reports = <<>>))
        => llm_calls = <<>> /\ output_file = file_before

\* C5 witness: a pull request with a resolved project and no report was
\* skipped after an earlier pull request had written its final summary.
C5_Witness ==
    /\ pc = "pr_skipped" /\ project # None /\ reports = <<>>
    /\ pr_index > 1 /\ output_file # None /\ llm_calls = <<>>

\* The inference service is deterministic: equal prompts got equal answers.
Deterministic ==
    \A a, b \in llm_seen :
        (a.kind = b.kind /\ a.index = b.index /\ a.text = b.text) => a.response = b.response

\* C10: with a deterministic inference service, a pipeline that completes on
\* the project and reports of an earlier completed pipeline leaves the
\* artifact with the same content.
C10_Idempotent ==
    (pc = "pr_done" /\ Deterministic) =>
        \A c \in completed :
            (c.project = project /\ c.reports = reports) => c.content = output_file

\* C10 witness: the second of two completed pipelines on the same two
\* reports, with the content the first one left.
C10_Witness ==
    /\ pc = "pr_done" /\ Deterministic /\ Len(reports) = 2
    /\ \E c \in completed :
           c.project = project /\ c.reports = reports /\ c.content = output_file

====
